---- MODULE Spec2Model ----
(***************************************************************************)
(* Model of the Tinder data evaluation script (src/main.py): the report    *)
(* driver, its report sections, the grouping aggregator _get_mapped_sum,   *)
(* the series builder _split_tuples and the figure persister _save_fig.    *)
(*                                                                         *)
(* Python strings are sequences of one-character strings.  Counts are      *)
(* tagged values: a JSON integer IntV(n) or a JSON string StrV(s).         *)
(* Floats that the script formats with ".1f" are kept as exact fractions   *)
(* and formatted to tenths.                                                *)
(***************************************************************************)
EXTENDS Integers, Sequences, FiniteSets, TLC

VARIABLES
    pc,       \* the report step the driver is at ("done" after the last one);
              \* a step that raised stays the value of pc, as in the traceback
    data,     \* the loaded data.json document
    log,      \* the lines written to logfile.txt, in order
    images,   \* the figures handed to savefig, in order
    err,      \* the exception that ended the run, or "none"
    fn,       \* aggregator harness: the classification function
    arg,      \* aggregator harness: the date -> count mapping passed in
    ret       \* aggregator harness: the outcome of _get_mapped_sum

vars == <<pc, data, log, images, err, fn, arg, ret>>

-----------------------------------------------------------------------------
(* Bounds of the model *)

MaxEntries == 2     \* entries per swipe / message / match mapping
MaxOpenDays == 3    \* entries of app_opens
MaxCount == 1       \* largest swipe / message / match count per day
MaxOpens == 2       \* largest app_opens count per day
MaxMatches == 2     \* match objects in Messages
MaxMsgs == 2        \* messages per match

-----------------------------------------------------------------------------
(* Characters, strings, integers *)

Digits == <<"0", "1", "2", "3", "4", "5", "6", "7", "8", "9">>

IsDigit(c) == \E i \in 1..10 : Digits[i] = c

DigitVal(c) == (CHOOSE i \in 1..10 : Digits[i] = c) - 1

\* Code point order of the characters that occur in the modelled strings.
Ord(c) ==
    CASE c = " " -> 32
      [] c = "+" -> 43
      [] c = "-" -> 45
      [] IsDigit(c) -> 48 + DigitVal(c)
      [] OTHER -> 120

Min2(a, b) == IF a < b THEN a ELSE b

\* Python's str < str: code point order at the first difference, else length.
StrLess(a, b) ==
    LET n == Min2(Len(a), Len(b))
        diff == {i \in 1..n : a[i] # b[i]}
    IN  IF diff = {}
        THEN Len(a) < Len(b)
        ELSE LET i == CHOOSE j \in diff : \A k \in diff : j <= k
             IN  Ord(a[i]) < Ord(b[i])

RECURSIVE DigitsToNat(_)
DigitsToNat(s) ==
    IF s = <<>> THEN 0
    ELSE 10 * DigitsToNat(SubSeq(s, 1, Len(s) - 1)) + DigitVal(s[Len(s)])

AllDigits(s) == \A i \in 1..Len(s) : IsDigit(s[i])

\* Python slice s[0:n]: never fails, a shorter string is returned whole.
Slice0(s, n) == SubSeq(s, 1, Min2(n, Len(s)))

IntV(n) == [isStr |-> FALSE, n |-> n, s |-> <<>>]
StrV(s) == [isStr |-> TRUE, n |-> 0, s |-> s]

\* int(v): an int is returned as is; a string must be an optional sign
\* followed by decimal digits, else ValueError.
IntOk(v) ==
    IF ~v.isStr THEN TRUE
    ELSE LET body == IF v.s # <<>> /\ v.s[1] \in {"+", "-"} THEN Tail(v.s) ELSE v.s
         IN  body # <<>> /\ AllDigits(body)

IntOf(v) ==
    IF ~v.isStr THEN v.n
    ELSE IF v.s[1] = "-" THEN 0 - DigitsToNat(Tail(v.s))
    ELSE IF v.s[1] = "+" THEN DigitsToNat(Tail(v.s))
    ELSE DigitsToNat(v.s)

-----------------------------------------------------------------------------
(* datetime.strptime(x, DATEFORMAT) and datetime arithmetic *)

IsLeap(y) == y % 4 = 0 /\ (y % 100 # 0 \/ y % 400 = 0)

DaysInMonth(y, m) ==
    IF m = 2 THEN (IF IsLeap(y) THEN 29 ELSE 28)
    ELSE IF m \in {4, 6, 9, 11} THEN 30 ELSE 31

RECURSIVE DaysBeforeMonth(_, _)
DaysBeforeMonth(y, m) ==
    IF m = 1 THEN 0 ELSE DaysBeforeMonth(y, m - 1) + DaysInMonth(y, m - 1)

DaysBeforeYear(y) ==
    LET p == y - 1 IN p * 365 + (p \div 4) - (p \div 100) + (p \div 400)

ToOrdinal(dt) == DaysBeforeYear(dt.y) + DaysBeforeMonth(dt.y, dt.m) + dt.d

\* datetime.weekday(): Monday = 0 ... Sunday = 6
Weekday(dt) == (ToOrdinal(dt) + 6) % 7

NoDate == [ok |-> FALSE, y |-> 0, m |-> 0, d |-> 0]

At(s, i) == IF i <= Len(s) THEN s[i] ELSE "$"

\* The %m directive at position i: 1[0-2] | 0[1-9] | [1-9], tried in this
\* order, each followed by "-".  Returns <<month, next position>> or <<0, 0>>.
ParseMonth(s, i) ==
    LET c1 == At(s, i)
        c2 == At(s, i + 1)
    IN  IF c1 = "1" /\ c2 \in {"0", "1", "2"} /\ At(s, i + 2) = "-"
            THEN <<10 + DigitVal(c2), i + 3>>
        ELSE IF c1 = "0" /\ IsDigit(c2) /\ c2 # "0" /\ At(s, i + 2) = "-"
            THEN <<DigitVal(c2), i + 3>>
        ELSE IF IsDigit(c1) /\ c1 # "0" /\ c2 = "-"
            THEN <<DigitVal(c1), i + 2>>
        ELSE <<0, 0>>

\* The %d directive at position i: 3[0-1] | [1-2]\d | 0[1-9] | [1-9] | " "[1-9];
\* the first alternative that matches is taken.  Returns <<day, end position>>.
ParseDay(s, i) ==
    LET c1 == At(s, i)
        c2 == At(s, i + 1)
    IN  IF c1 = "3" /\ c2 \in {"0", "1"} THEN <<30 + DigitVal(c2), i + 2>>
        ELSE IF c1 \in {"1", "2"} /\ IsDigit(c2) THEN <<10 * DigitVal(c1) + DigitVal(c2), i + 2>>
        ELSE IF c1 = "0" /\ IsDigit(c2) /\ c2 # "0" THEN <<DigitVal(c2), i + 2>>
        ELSE IF IsDigit(c1) /\ c1 # "0" THEN <<DigitVal(c1), i + 1>>
        ELSE IF c1 = " " /\ IsDigit(c2) /\ c2 # "0" THEN <<DigitVal(c2), i + 2>>
        ELSE <<0, 0>>

\* datetime.strptime(s, "%Y-%m-%d"): ok = FALSE stands for ValueError (no
\* match, unconverted data remaining, or a day out of range for the month).
strptime(s) ==
    IF ~(Len(s) >= 5 /\ AllDigits(SubSeq(s, 1, 4)) /\ s[5] = "-") THEN NoDate
    ELSE LET y == DigitsToNat(SubSeq(s, 1, 4))
             pm == ParseMonth(s, 6)
         IN  IF pm[1] = 0 THEN NoDate
             ELSE LET pd == ParseDay(s, pm[2])
                  IN  IF pd[1] = 0 \/ pd[2] # Len(s) + 1 THEN NoDate
                      ELSE IF y < 1 \/ pd[1] > DaysInMonth(y, pm[1]) THEN NoDate
                      ELSE [ok |-> TRUE, y |-> y, m |-> pm[1], d |-> pd[1]]

-----------------------------------------------------------------------------
(* Formatting of logged values *)

RECURSIVE NatToDigits(_)
NatToDigits(n) ==
    IF n < 10 THEN <<Digits[n + 1]>>
    ELSE NatToDigits(n \div 10) \o <<Digits[(n % 10) + 1]>>

\* f"{n}" / f"{n:d}" of an int
FmtInt(n) == IF n < 0 THEN <<"-">> \o NatToDigits(0 - n) ELSE NatToDigits(n)

RECURSIVE GroupDigits(_)
GroupDigits(ds) ==
    IF Len(ds) <= 3 THEN ds
    ELSE GroupDigits(SubSeq(ds, 1, Len(ds) - 3)) \o <<"'">> \o SubSeq(ds, Len(ds) - 2, Len(ds))

\* f"{n:,d}".replace(",", "'")
FmtGrouped(n) ==
    IF n < 0 THEN <<"-">> \o GroupDigits(NatToDigits(0 - n)) ELSE GroupDigits(NatToDigits(n))

\* Nearest integer to n / d (n >= 0, d > 0), ties to even, as ".1f" rounds
\* the tenths of a float.  The quotient is exact here; a float differs from
\* it only next to a tie whose binary value is inexact, which needs a
\* denominator that is a multiple of 20 for a mean and of 16 for a percentage.
RoundHalfEven(n, d) ==
    LET q == n \div d
        r == n % d
    IN  IF 2 * r > d THEN q + 1
        ELSE IF 2 * r < d THEN q
        ELSE IF q % 2 = 0 THEN q ELSE q + 1

FmtTenths(t) == NatToDigits(t \div 10) \o <<".">> \o <<Digits[(t % 10) + 1]>>

NaN == <<"n", "a", "n">>

\* f"{np.mean(xs):.1f}" with total = sum(xs), count = len(xs): numpy's mean
\* of an empty list is nan (a RuntimeWarning, no exception).
FmtMean(total, count) ==
    IF count = 0 THEN NaN ELSE FmtTenths(RoundHalfEven(10 * total, count))

\* A division that masks a zero denominator as 0.0.
PercentMasked(a, b) ==
    IF b = 0 THEN [ok |-> TRUE, text |-> <<"0", ".", "0">>]
    ELSE [ok |-> TRUE, text |-> FmtTenths(RoundHalfEven(1000 * a, b))]

\* f"{a/b*100:.1f}" for Python ints a >= 0 and b: int / int raises
\* ZeroDivisionError when b is 0 (ok = FALSE).
Percent(a, b) ==
    IF b = 0 THEN [ok |-> FALSE, text |-> <<>>]
    ELSE [ok |-> TRUE, text |-> FmtTenths(RoundHalfEven(1000 * a, b))]

Line(sec, key, vals) == [sec |-> sec, key |-> key, vals |-> vals]

-----------------------------------------------------------------------------
(* Helper: _get_mapped_sum, _split_tuples, sorted, _save_fig *)

EmptyMap == [x \in {} |-> 0]

\* The two id_fun lambdas: "month" is x[0:7], "weekday" is
\* datetime.strptime(x, DATEFORMAT).weekday().
IdFunOk(f, k) == IF f = "month" THEN TRUE ELSE strptime(k).ok

IdFun(f, k) == IF f = "month" THEN Slice0(k, 7) ELSE Weekday(strptime(k))

\* The aggregator with "=" in place of "+=".
AddToOverwrite(mapped, g, n) ==
    [x \in DOMAIN mapped \cup {g} |-> IF x = g THEN n ELSE mapped[x]]

\* mapped[map(k)] += int(data[k]) on a defaultdict(int)
AddTo(mapped, g, n) ==
    [x \in DOMAIN mapped \cup {g} |->
        IF x = g THEN (IF g \in DOMAIN mapped THEN mapped[g] ELSE 0) + n
        ELSE mapped[x]]

RECURSIVE MappedLoop(_, _, _, _)
MappedLoop(f, d, keys, mapped) ==
    IF keys = {} THEN [ok |-> TRUE, m |-> mapped]
    ELSE LET k == CHOOSE x \in keys : TRUE
         IN  IF ~IdFunOk(f, k) \/ ~IntOk(d[k])
             THEN [ok |-> FALSE, m |-> EmptyMap]
             ELSE MappedLoop(f, d, keys \ {k}, AddTo(mapped, IdFun(f, k), IntOf(d[k])))

\* ok = FALSE stands for the ValueError of strptime or of int().
_get_mapped_sum(f, d) == MappedLoop(f, d, DOMAIN d, EmptyMap)

KeyLess(f, a, b) == IF f = "month" THEN StrLess(a, b) ELSE a < b

RECURSIVE SortedKeys(_, _)
SortedKeys(f, ks) ==
    IF ks = {} THEN <<>>
    ELSE LET lo == CHOOSE a \in ks : \A b \in ks \ {a} : KeyLess(f, a, b)
         IN  <<lo>> \o SortedKeys(f, ks \ {lo})

\* _split_tuples(sorted(mapped.items())): <<keys, values>>
_split_tuples(f, mapped) ==
    LET ks == SortedKeys(f, DOMAIN mapped)
    IN  <<ks, [i \in 1..Len(ks) |-> mapped[ks[i]]]>>

\* The persister reading its own frame, inspect.stack()[0][3].
save_fig_own_frame(caller, bars, lines) ==
    [name |-> "_save_fig", file |-> "_save_fig.png", bars |-> bars, lines |-> lines]

\* fig.savefig(os.path.join(path, f"{name}.png")), name being the caller
_save_fig(caller, bars, lines) ==
    [name |-> caller, file |-> caller \o ".png", bars |-> bars, lines |-> lines]

-----------------------------------------------------------------------------
(* numpy broadcasting of one-dimensional sequences, Axes.bar, Axes.plot *)

Broadcastable(n, m) == n = m \/ n = 1 \/ m = 1

BLen(n, m) == IF n = 1 THEN m ELSE n

BAt(s, i) == IF Len(s) = 1 THEN s[1] ELSE s[i]

Zeros(n) == [i \in 1..n |-> 0]

\* ax.bar(xs, hs, BAR_WIDTH, bottom=bs): x, height and bottom are broadcast
\* against each other; rectangle i stands at xs[i] on bs[i].
BarOk(xs, bs) == Broadcastable(Len(xs), Len(bs))

Bar(label, xs, hs, bs) ==
    [label |-> label,
     rects |-> [i \in 1..BLen(Len(xs), Len(bs)) |->
                   [x |-> BAt(xs, i), height |-> BAt(hs, i), bottom |-> BAt(bs, i)]]]

\* a / b on numpy arrays: the quotients stay exact fractions <<num, den>>;
\* a zero denominator gives inf or nan with a warning, never an exception.
Quot(a, b) == [i \in 1..BLen(Len(a), Len(b)) |-> <<BAt(a, i), BAt(b, i)>>]

Whole(a) == [i \in 1..Len(a) |-> <<a[i], 1>>]

\* ax.plot(xs, ys): x and y must have the same first dimension
PlotOk(xs, ys) == Len(xs) = Len(ys)

Plot(label, xs, ys) ==
    [label |-> label, pts |-> [i \in 1..Len(xs) |-> [x |-> xs[i], y |-> ys[i]]]]

-----------------------------------------------------------------------------
(* Outcome of one report step: the exception raised ("none" if it returned), *)
(* the log lines it wrote before that, and the figures it saved.            *)

Outcome(e, lines, figs) == [err |-> e, lines |-> lines, figs |-> figs]

RECURSIVE SumCounts(_, _)
\* sum(v for v in d.values()) over integer counts
SumCounts(d, ks) ==
    IF ks = {} THEN 0
    ELSE LET k == CHOOSE x \in ks : TRUE
         IN  d[k].n + SumCounts(d, ks \ {k})

HasStr(d) == \E k \in DOMAIN d : d[k].isStr

MinKey(ks) == CHOOSE a \in ks : \A b \in ks \ {a} : StrLess(a, b)

MaxKey(ks) == CHOOSE a \in ks : \A b \in ks \ {a} : StrLess(b, a)

\* len([v for v in app_opens.values() if v > 0])
UsedDays(app_opens) == Cardinality({k \in DOMAIN app_opens : app_opens[k].n > 0})

\* The day span counted inclusively.
DeltaDaysInclusive(min_date, max_date) ==
    ToOrdinal(strptime(max_date)) - ToOrdinal(strptime(min_date)) + 1

\* (strptime(max_date) - strptime(min_date)).days
DeltaDays(min_date, max_date) ==
    ToOrdinal(strptime(max_date)) - ToOrdinal(strptime(min_date))

\* np.mean([int(v) for v in app_opens.values() if v > 0]) formatted ".1f"
MeanOpens(app_opens) ==
    LET pos == {k \in DOMAIN app_opens : app_opens[k].n > 0}
    IN  FmtMean(SumCounts(app_opens, pos), Cardinality(pos))

GeneralInfo(app_opens) ==
    LET keys == DOMAIN app_opens
    IN  IF keys = {} THEN Outcome("ValueError", <<>>, <<>>)     \* min() of an empty sequence
        ELSE IF HasStr(app_opens) THEN Outcome("TypeError", <<>>, <<>>)  \* str > int
        ELSE LET min_date == MinKey(keys)
                 max_date == MaxKey(keys)
             IN  IF ~strptime(max_date).ok \/ ~strptime(min_date).ok
                 THEN Outcome("ValueError", <<>>, <<>>)
                 ELSE LET used == UsedDays(app_opens)
                          days == DeltaDays(min_date, max_date)
                      IN  Outcome("none",
                            << Line("general_info", "header", <<>>),
                               Line("general_info", "Start Date", <<min_date>>),
                               Line("general_info", "End Date", <<max_date>>),
                               Line("general_info", "Days", <<FmtInt(days)>>),
                               Line("general_info", "used", <<FmtInt(used)>>),
                               Line("general_info", "unused", <<FmtInt(days - used)>>),
                               Line("general_info", "Av. app-open per usage-day",
                                    <<MeanOpens(app_opens)>>),
                               Line("general_info", "blank", <<>>) >>,
                            <<>>)

-----------------------------------------------------------------------------
(* Swipes *)

SwipesTotal(likes, passes, matches) ==
    IF HasStr(likes) \/ HasStr(passes) \/ HasStr(matches)
    THEN Outcome("TypeError", <<>>, <<>>)                       \* int + str in sum()
    ELSE
    LET total_likes == SumCounts(likes, DOMAIN likes)
        total_passes == SumCounts(passes, DOMAIN passes)
        total_swipes == total_likes + total_passes
        total_matches == SumCounts(matches, DOMAIN matches)
        head == << Line("swipes_total", "header", <<>>),
                   Line("swipes_total", "Total Swipes", <<FmtGrouped(total_swipes)>>) >>
        p_swipes == Percent(total_passes, total_swipes)
        l_swipes == Percent(total_likes, total_swipes)
        m_swipes == Percent(total_matches, total_swipes)
        m_likes == Percent(total_matches, total_likes)
    IN  IF ~p_swipes.ok THEN Outcome("ZeroDivisionError", head, <<>>)
        ELSE IF ~l_swipes.ok
        THEN Outcome("ZeroDivisionError",
               head \o << Line("swipes_total", "Passes",
                               <<FmtGrouped(total_passes), p_swipes.text>>) >>, <<>>)
        ELSE LET two == head \o
                   << Line("swipes_total", "Passes", <<FmtGrouped(total_passes), p_swipes.text>>),
                      Line("swipes_total", "Likes", <<FmtGrouped(total_likes), l_swipes.text>>) >>
             IN  IF ~m_swipes.ok \/ ~m_likes.ok THEN Outcome("ZeroDivisionError", two, <<>>)
                 ELSE Outcome("none",
                        two \o
                        << Line("swipes_total", "Matches",
                                <<FmtInt(total_matches), m_swipes.text, m_likes.text>>),
                           Line("swipes_total", "blank", <<>>) >>,
                        <<>>)

\* swipes_monthly (f = "month") and swipes_weekday (f = "weekday")
SwipesChart(caller, f, likes, passes, matches) ==
    LET la == _get_mapped_sum(f, likes)
        pa == _get_mapped_sum(f, passes)
        ma == _get_mapped_sum(f, matches)
    IN  IF ~la.ok \/ ~pa.ok \/ ~ma.ok THEN Outcome("ValueError", <<>>, <<>>)
        ELSE LET like_map == _split_tuples(f, la.m)
                 pass_map == _split_tuples(f, pa.m)
                 match_map == _split_tuples(f, ma.m)
             IN  IF ~BarOk(pass_map[1], like_map[2]) THEN Outcome("ValueError", <<>>, <<>>)
                 ELSE Outcome("none", <<>>,
                        << _save_fig(caller,
                             << Bar("Like", like_map[1], like_map[2], Zeros(1)),
                                Bar("Pass", pass_map[1], pass_map[2], like_map[2]) >>,
                             << Plot("Matches", match_map[1], Whole(match_map[2])) >>) >>)

\* swipes_monthly_relative (f = "month") and swipes_weekday_relative (f = "weekday")
SwipesRelative(caller, f, likes, passes, matches) ==
    LET la == _get_mapped_sum(f, likes)
        pa == _get_mapped_sum(f, passes)
        ma == _get_mapped_sum(f, matches)
    IN  IF ~la.ok \/ ~pa.ok \/ ~ma.ok THEN Outcome("ValueError", <<>>, <<>>)
        ELSE LET like_map == _split_tuples(f, la.m)
                 pass_map == _split_tuples(f, pa.m)
                 match_map == _split_tuples(f, ma.m)
             IN  IF ~Broadcastable(Len(like_map[2]), Len(pass_map[2]))
                 THEN Outcome("ValueError", <<>>, <<>>)
                 ELSE LET total == [i \in 1..BLen(Len(like_map[2]), Len(pass_map[2])) |->
                                       BAt(like_map[2], i) + BAt(pass_map[2], i)]
                          share == Quot(like_map[2], total)
                      IN  IF ~PlotOk(like_map[1], share)
                             \/ ~Broadcastable(Len(match_map[2]), Len(like_map[2]))
                          THEN Outcome("ValueError", <<>>, <<>>)
                          ELSE LET rate == Quot(match_map[2], like_map[2])
                               IN  IF ~PlotOk(match_map[1], rate)
                                   THEN Outcome("ValueError", <<>>, <<>>)
                                   ELSE Outcome("none", <<>>,
                                          << _save_fig(caller, <<>>,
                                               << Plot("Likes/Swipes", like_map[1], share),
                                                  Plot("Matches/Likes", match_map[1], rate) >>) >>)

-----------------------------------------------------------------------------
(* Messages *)

MessagesTotal(sent, received) ==
    IF HasStr(sent) \/ HasStr(received) THEN Outcome("TypeError", <<>>, <<>>)
    ELSE Outcome("none",
           << Line("messages_total", "header", <<>>),
              Line("messages_total", "Send", <<FmtGrouped(SumCounts(sent, DOMAIN sent))>>),
              Line("messages_total", "Received",
                   <<FmtGrouped(SumCounts(received, DOMAIN received))>>),
              Line("messages_total", "blank", <<>>) >>,
           <<>>)

\* messages_monthly (f = "month") and messages_weekday (f = "weekday")
MessagesChart(caller, f, sent, received) ==
    LET sa == _get_mapped_sum(f, sent)
        ra == _get_mapped_sum(f, received)
    IN  IF ~sa.ok \/ ~ra.ok THEN Outcome("ValueError", <<>>, <<>>)
        ELSE LET sent_map == _split_tuples(f, sa.m)
                 received_map == _split_tuples(f, ra.m)
             IN  IF ~BarOk(received_map[1], sent_map[2]) THEN Outcome("ValueError", <<>>, <<>>)
                 ELSE LET ratio == Quot(received_map[2], sent_map[2])
                      IN  IF ~PlotOk(sent_map[1], ratio) THEN Outcome("ValueError", <<>>, <<>>)
                          ELSE Outcome("none", <<>>,
                                 << _save_fig(caller,
                                      << Bar("Sent", sent_map[1], sent_map[2], Zeros(1)),
                                         Bar("Received", received_map[1], received_map[2],
                                             sent_map[2]) >>,
                                      << Plot("Received/Sent", sent_map[1], ratio) >>) >>)

-----------------------------------------------------------------------------
(* Message loyalty *)

WeekdayAbbr == {"Mon", "Tue", "Wed", "Thu", "Fri", "Sat", "Sun"}

MonthAbbr == <<"Jan", "Feb", "Mar", "Apr", "May", "Jun",
               "Jul", "Aug", "Sep", "Oct", "Nov", "Dec">>

\* A one- or two-digit field (%H, %M, %S) with its largest value
FieldOk(s, hi) == Len(s) \in {1, 2} /\ AllDigits(s) /\ DigitsToNat(s) <= hi

NoStamp == [ok |-> FALSE, y |-> 0, mo |-> 0, d |-> 0, H |-> 0, M |-> 0, S |-> 0]

\* datetime.strptime(m["sent_date"], MESSAGE_DATEFORMAT) on a sent_date
\* already cut at the literal ", ", " " and ":" of the format into the
\* fields %a %d %b %Y %H %M %S %Z.  ok = FALSE stands for ValueError.
\* %Z takes UTC, GMT and the names of the local zone; the local zone is
\* taken to be one of the two.
msg_strptime(t) ==
    LET pd == ParseDay(t.d, 1)
        months == {i \in 1..12 : MonthAbbr[i] = t.b}
    IN  IF \/ t.a \notin WeekdayAbbr
           \/ pd[1] = 0 \/ pd[2] # Len(t.d) + 1
           \/ months = {}
           \/ Len(t.Y) # 4 \/ ~AllDigits(t.Y) \/ DigitsToNat(t.Y) < 1
           \/ ~FieldOk(t.H, 23) \/ ~FieldOk(t.M, 59) \/ ~FieldOk(t.S, 61)
           \/ t.Z \notin {"UTC", "GMT"}
        THEN NoStamp
        ELSE LET mo == CHOOSE i \in months : TRUE
                 y == DigitsToNat(t.Y)
             IN  IF pd[1] > DaysInMonth(y, mo) THEN NoStamp
                 ELSE [ok |-> TRUE, y |-> y, mo |-> mo, d |-> pd[1],
                       H |-> DigitsToNat(t.H), M |-> DigitsToNat(t.M), S |-> DigitsToNat(t.S)]

\* The matches taken in source order.
NotReversed(xs) == xs

\* list(reversed(xs))
Reversed(xs) == [i \in 1..Len(xs) |-> xs[Len(xs) + 1 - i]]

\* dates = [strptime(m["sent_date"]) for m in messages]; ax.plot(dates, [idx] * len(dates))
LoyaltySeries(matches, idx) ==
    LET messages == matches[idx + 1].messages
    IN  [label |-> "",
         pts |-> [j \in 1..Len(messages) |->
                     [x |-> msg_strptime(messages[j].sent_date), y |-> idx]]]

MessageLoyality(Messages) ==
    LET matches == Reversed(Messages)
    IN  IF \E i \in 1..Len(matches) : \E j \in 1..Len(matches[i].messages) :
              ~msg_strptime(matches[i].messages[j].sent_date).ok
        THEN Outcome("ValueError", <<>>, <<>>)
        ELSE Outcome("none", <<>>,
               << _save_fig("message_loyality", <<>>,
                    [i \in 1..Len(matches) |-> LoyaltySeries(matches, i - 1)]) >>)

-----------------------------------------------------------------------------
(* Data exports the model loads *)

D_2024_01_01 == <<"2", "0", "2", "4", "-", "0", "1", "-", "0", "1">>   \* a Monday
D_2024_01_02 == <<"2", "0", "2", "4", "-", "0", "1", "-", "0", "2">>   \* a Tuesday
D_2024_01_03 == <<"2", "0", "2", "4", "-", "0", "1", "-", "0", "3">>   \* a Wednesday
D_2024_02_05 == <<"2", "0", "2", "4", "-", "0", "2", "-", "0", "5">>   \* a Monday
D_2024_01 == <<"2", "0", "2", "4", "-", "0", "1">>                     \* too short
D_2024_1_9 == <<"2", "0", "2", "4", "-", "1", "-", "9">>               \* not zero padded
D_2024_02_30 == <<"2", "0", "2", "4", "-", "0", "2", "-", "3", "0">>   \* no such day

DatePool == {D_2024_01_01, D_2024_01_02, D_2024_02_05}

OpensPool == {D_2024_01_01, D_2024_01_02, D_2024_01_03, D_2024_02_05}

BadDates == {D_2024_01, D_2024_1_9, D_2024_02_30}

\* All mappings from at most n keys of pool to values of vals
Maps(pool, n, vals) ==
    UNION {[S -> vals] : S \in {T \in SUBSET pool : Cardinality(T) <= n}}

Counts(hi) == {IntV(n) : n \in 0..hi}

One == IntV(1)

T_Mon == [a |-> "Mon", d |-> <<"0", "1">>, b |-> "Jan", Y |-> <<"2", "0", "2", "4">>,
          H |-> <<"1", "0">>, M |-> <<"0", "0">>, S |-> <<"0", "0">>, Z |-> "GMT"]
T_Tue == [a |-> "Tue", d |-> <<"0", "2">>, b |-> "Jan", Y |-> <<"2", "0", "2", "4">>,
          H |-> <<"0", "9">>, M |-> <<"3", "0">>, S |-> <<"0", "0">>, Z |-> "GMT"]
T_Bad == [a |-> "Tue", d |-> <<"3", "2">>, b |-> "Jan", Y |-> <<"2", "0", "2", "4">>,
          H |-> <<"0", "9">>, M |-> <<"3", "0">>, S |-> <<"0", "0">>, Z |-> "GMT"]

StampPool == {T_Mon, T_Tue}

RECURSIVE SeqsUpTo(_, _)
\* All sequences of at most n elements of S
SeqsUpTo(S, n) ==
    IF n = 0 THEN {<<>>}
    ELSE LET shorter == SeqsUpTo(S, n - 1)
         IN  shorter \cup {Append(q, x) : q \in {r \in shorter : Len(r) = n - 1}, x \in S}

MatchObjects ==
    {[messages |-> ms] :
        ms \in {[j \in 1..Len(q) |-> [sent_date |-> q[j]]] : q \in SeqsUpTo(StampPool, MaxMsgs)}}

MessagesLists == SeqsUpTo(MatchObjects, MaxMatches)

Baseline ==
    [Usage |-> [app_opens |-> (D_2024_01_01 :> One) @@ (D_2024_01_03 :> One),
                swipes_likes |-> (D_2024_01_01 :> One),
                swipes_passes |-> (D_2024_01_01 :> One),
                matches |-> (D_2024_01_01 :> One),
                messages_sent |-> (D_2024_01_01 :> One),
                messages_received |-> (D_2024_01_01 :> One)],
     Messages |-> << [messages |-> << [sent_date |-> T_Mon] >>] >>]

SwipeFields == {"swipes_likes", "swipes_passes", "matches"}

MessageFields == {"messages_sent", "messages_received"}

SwipePairs ==
    {<<"swipes_likes", "swipes_passes">>, <<"swipes_likes", "matches">>,
     <<"swipes_passes", "matches">>}

MessagePairs == {<<"messages_sent", "messages_received">>}

WithUsage(doc, f, m) == [doc EXCEPT !.Usage[f] = m]

\* Mappings a well-formed export does not hold: a count given as a string,
\* a date key that is not YYYY-MM-DD.
OddMaps ==
    {(D_2024_01_01 :> StrV(<<"1">>))}
    \cup {(b :> One) : b \in BadDates}
    \cup {(D_2024_01_01 :> One) @@ (b :> One) : b \in BadDates}

\* Two Usage mappings of one section replaced in doc
TwoFields(doc, pairs) ==
    {WithUsage(WithUsage(doc, p[1], m), p[2], n) :
        p \in pairs,
        m \in Maps(DatePool, MaxEntries, Counts(MaxCount)),
        n \in Maps(DatePool, MaxEntries, Counts(MaxCount))}

\* The exports the model loads.  The sections read disjoint fields, so the
\* fields of one section vary while the others keep their Baseline value:
\* app_opens and Messages alone, the swipe mappings and the message
\* mappings two at a time.
Documents ==
    {WithUsage(Baseline, "app_opens", m) :
        m \in Maps(OpensPool, MaxOpenDays, Counts(MaxOpens)) \cup OddMaps}
    \cup {[Baseline EXCEPT !.Messages = ml] : ml \in MessagesLists}
    \cup {[Baseline EXCEPT !.Messages = << [messages |-> << [sent_date |-> T_Bad] >>] >>]}
    \cup TwoFields(Baseline, SwipePairs)
    \cup TwoFields(Baseline, MessagePairs)
    \cup {WithUsage(Baseline, f, m) : f \in SwipeFields \cup MessageFields, m \in OddMaps}

-----------------------------------------------------------------------------
(* The report driver: the __main__ block after load_mydata *)

NoCall == [ok |-> FALSE, m |-> EmptyMap]

Init ==
    /\ data \in Documents
    /\ pc = "general_info"
    /\ log = <<>>
    /\ images = <<>>
    /\ err = "none"
    /\ fn = "none"
    /\ arg = EmptyMap
    /\ ret = NoCall

\* The driver with an exception that continues with the next section.
StepKeepGoing(out, next) ==
    /\ log' = log \o out.lines
    /\ images' = images \o out.figs
    /\ err' = IF out.err = "none" THEN err ELSE out.err
    /\ pc' = next
    /\ UNCHANGED <<data, fn, arg, ret>>

\* A step that raises ends the run: the exception leaves __main__.
Step(out, next) ==
    /\ err = "none"
    /\ log' = log \o out.lines
    /\ images' = images \o out.figs
    /\ err' = out.err
    /\ pc' = IF out.err = "none" THEN next ELSE pc
    /\ UNCHANGED <<data, fn, arg, ret>>

general_info ==
    /\ pc = "general_info"
    /\ Step(GeneralInfo(data.Usage.app_opens), "swipes_total")

swipes_total ==
    /\ pc = "swipes_total"
    /\ Step(SwipesTotal(data.Usage.swipes_likes, data.Usage.swipes_passes, data.Usage.matches),
            "swipes_monthly")

swipes_monthly ==
    /\ pc = "swipes_monthly"
    /\ Step(SwipesChart("swipes_monthly", "month", data.Usage.swipes_likes,
                        data.Usage.swipes_passes, data.Usage.matches),
            "swipes_monthly_relative")

swipes_monthly_relative ==
    /\ pc = "swipes_monthly_relative"
    /\ Step(SwipesRelative("swipes_monthly_relative", "month", data.Usage.swipes_likes,
                           data.Usage.swipes_passes, data.Usage.matches),
            "swipes_weekday")

swipes_weekday ==
    /\ pc = "swipes_weekday"
    /\ Step(SwipesChart("swipes_weekday", "weekday", data.Usage.swipes_likes,
                        data.Usage.swipes_passes, data.Usage.matches),
            "swipes_weekday_relative")

swipes_weekday_relative ==
    /\ pc = "swipes_weekday_relative"
    /\ Step(SwipesRelative("swipes_weekday_relative", "weekday", data.Usage.swipes_likes,
                           data.Usage.swipes_passes, data.Usage.matches),
            "messages_total")

messages_total ==
    /\ pc = "messages_total"
    /\ Step(MessagesTotal(data.Usage.messages_sent, data.Usage.messages_received),
            "messages_monthly")

messages_monthly ==
    /\ pc = "messages_monthly"
    /\ Step(MessagesChart("messages_monthly", "month", data.Usage.messages_sent,
                          data.Usage.messages_received),
            "messages_weekday")

messages_weekday ==
    /\ pc = "messages_weekday"
    /\ Step(MessagesChart("messages_weekday", "weekday", data.Usage.messages_sent,
                          data.Usage.messages_received),
            "message_loyality")

message_loyality ==
    /\ pc = "message_loyality"
    /\ Step(MessageLoyality(data.Messages), "done")

Next ==
    \/ general_info
    \/ swipes_total
    \/ swipes_monthly
    \/ swipes_monthly_relative
    \/ swipes_weekday
    \/ swipes_weekday_relative
    \/ messages_total
    \/ messages_monthly
    \/ messages_weekday
    \/ message_loyality

Spec == Init /\ [][Next]_vars

-----------------------------------------------------------------------------
(* The grouping aggregator on its own: one call of _get_mapped_sum with a   *)
(* classification function and a mapping drawn from bounded sets.           *)

AggPool == DatePool \cup BadDates

AggValues ==
    Counts(MaxCount) \cup {StrV(<<"2">>), StrV(<<"1", "0">>), StrV(<<"x">>)}

AggInit ==
    /\ fn \in {"month", "weekday"}
    /\ arg \in Maps(AggPool, MaxEntries, AggValues)
    /\ ret = NoCall
    /\ pc = "call"
    /\ data = Baseline
    /\ log = <<>>
    /\ images = <<>>
    /\ err = "none"

call_get_mapped_sum ==
    /\ pc = "call"
    /\ ret' = _get_mapped_sum(fn, arg)
    /\ pc' = "return"
    /\ err' = IF ret'.ok THEN "none" ELSE "ValueError"
    /\ UNCHANGED <<data, log, images, fn, arg>>

AggNext == call_get_mapped_sum

AggSpec == AggInit /\ [][AggNext]_vars

-----------------------------------------------------------------------------
(* Vocabulary of the properties *)

StepOrder ==
    << "general_info", "swipes_total", "swipes_monthly", "swipes_monthly_relative",
       "swipes_weekday", "swipes_weekday_relative", "messages_total", "messages_monthly",
       "messages_weekday", "message_loyality", "done" >>

Rank(s) == CHOOSE i \in 1..Len(StepOrder) : StepOrder[i] = s

LogSteps == {"general_info", "swipes_total", "messages_total"}

ChartSteps ==
    {"swipes_monthly", "swipes_monthly_relative", "swipes_weekday", "swipes_weekday_relative",
     "messages_monthly", "messages_weekday", "message_loyality"}

StackedCharts == {"swipes_monthly", "swipes_weekday", "messages_monthly", "messages_weekday"}

\* The step has run: it returned, or it is the one that raised.
Acted(step) == Rank(pc) > Rank(step) \/ (pc = step /\ err # "none")

Returned(step) == Rank(pc) > Rank(step)

\* The values of the log lines of a section with a key
LogVals(sec, key) ==
    {log[i].vals : i \in {j \in 1..Len(log) : log[j].sec = sec /\ log[j].key = key}}

ShapeYMD(k) ==
    /\ Len(k) = 10
    /\ \A i \in {1, 2, 3, 4, 6, 7, 9, 10} : IsDigit(k[i])
    /\ k[5] = "-"
    /\ k[8] = "-"

WellFormedDate(k) == ShapeYMD(k) /\ strptime(k).ok

IntegerLike(v) == ~v.isStr \/ (v.s # <<>> /\ AllDigits(v.s))

RECURSIVE SumInts(_, _)
SumInts(d, ks) ==
    IF ks = {} THEN 0
    ELSE LET k == CHOOSE x \in ks : TRUE
         IN  (IF d[k].isStr THEN DigitsToNat(d[k].s) ELSE d[k].n) + SumInts(d, ks \ {k})

RECURSIVE SumMap(_, _)
SumMap(m, ks) ==
    IF ks = {} THEN 0
    ELSE LET k == CHOOSE x \in ks : TRUE IN m[k] + SumMap(m, ks \ {k})

IntsOnly(d) == \A k \in DOMAIN d : ~d[k].isStr

-----------------------------------------------------------------------------
(* C1: for the month and the weekday classifier and every mapping of        *)
(* well-formed dates to integers or numeric strings, _get_mapped_sum        *)
(* returns a mapping whose keys are exactly the group keys of the input     *)
(* dates and whose value at a group key is the sum of the integer-coerced   *)
(* counts of the dates of that group; the output values sum to the sum of   *)
(* the input values, and an empty input gives an empty output.              *)

C1_Example == (D_2024_01_01 :> StrV(<<"1", "0">>)) @@ (D_2024_01_02 :> IntV(1))

C1_GroupedSums ==
    (pc = "return" /\ \A k \in DOMAIN arg : WellFormedDate(k) /\ IntegerLike(arg[k]))
    => /\ ret.ok
       /\ DOMAIN ret.m = {IdFun(fn, k) : k \in DOMAIN arg}
       /\ \A g \in DOMAIN ret.m :
             ret.m[g] = SumInts(arg, {k \in DOMAIN arg : IdFun(fn, k) = g})
       /\ SumMap(ret.m, DOMAIN ret.m) = SumInts(arg, DOMAIN arg)
       /\ (DOMAIN arg = {} => DOMAIN ret.m = {})
       /\ (fn = "month" /\ arg = C1_Example
             => ret.m = (<<"2", "0", "2", "4", "-", "0", "1">> :> 11))
       /\ (fn = "weekday" /\ arg = C1_Example => ret.m = (0 :> 10) @@ (1 :> 1))

C1_Witness == pc = "return" /\ fn = "month" /\ arg = C1_Example /\ ret.ok

-----------------------------------------------------------------------------
(* C4: whenever the mapping holds a date key that is not of the form        *)
(* YYYY-MM-DD, the aggregation fails with a format error, for the month     *)
(* classifier as for the weekday classifier.                                *)

C4_MalformedDateFails ==
    (pc = "return" /\ \E k \in DOMAIN arg : ~ShapeYMD(k)) => ~ret.ok

-----------------------------------------------------------------------------
(* C2: a complete run writes one image per chart-producing function, named  *)
(* after it.  As claimed: 9 distinct image files.  As amended: 7.           *)

ImageFiles == {images[i].file : i \in 1..Len(images)}

C2_NineImages == pc = "done" => Cardinality(ImageFiles) = 9

C2_SevenImages ==
    pc = "done"
    => /\ Len(images) = 7
       /\ ImageFiles =
            {"swipes_monthly.png", "swipes_monthly_relative.png", "swipes_weekday.png",
             "swipes_weekday_relative.png", "messages_monthly.png", "messages_weekday.png",
             "message_loyality.png"}

C2_Witness == pc = "done" /\ err = "none" /\ Len(images) > 0

-----------------------------------------------------------------------------
(* C3: the report steps happen in one fixed order (General Info, swipe      *)
(* totals, the four swipe charts, message totals, the two message charts,   *)
(* the loyalty chart); a failing step aborts the run, nothing of a later    *)
(* step is produced after it, and no step runs twice.                       *)

C3_Ordered ==
    /\ \A i \in 1..Len(log) :
          /\ log[i].sec \in LogSteps
          /\ Rank(log[i].sec) <= Rank(pc)
          /\ Rank(log[i].sec) = Rank(pc) => err # "none"
    /\ \A i \in 1..Len(log), j \in 1..Len(log) :
          i < j => Rank(log[i].sec) <= Rank(log[j].sec)
    /\ \A i \in 1..Len(images) :
          /\ images[i].name \in ChartSteps
          /\ Rank(images[i].name) < Rank(pc)
    /\ \A i \in 1..Len(images), j \in 1..Len(images) :
          i < j => Rank(images[i].name) < Rank(images[j].name)
    /\ err # "none" => pc # "done"

C3_StepTaken ==
    /\ err = "none"
    /\ \/ err' # "none" /\ pc' = pc /\ images' = images
       \/ err' = "none" /\ Rank(pc') = Rank(pc) + 1
    /\ Len(log') >= Len(log) /\ SubSeq(log', 1, Len(log)) = log
    /\ Len(images') >= Len(images) /\ SubSeq(images', 1, Len(images)) = images
    /\ \A i \in (Len(log) + 1)..Len(log') : log'[i].sec = pc
    /\ \A i \in (Len(images) + 1)..Len(images') : images'[i].name = pc
    /\ (pc \in ChartSteps /\ err' = "none") => Len(images') = Len(images) + 1
    /\ (pc \in LogSteps /\ err' = "none") => Len(log') > Len(log)

C3_FixedOrder == [](C3_Ordered) /\ [][C3_StepTaken]_vars

C3_Witness ==
    pc = "messages_weekday" /\ err = "ValueError" /\ Len(images) = 5 /\ Len(log) > 0

-----------------------------------------------------------------------------
(* C5: general_info fails with a division-by-zero error when app_opens is   *)
(* not empty and holds no positive count; it does not log the average line  *)
(* with a non-numeric value and does not complete normally.                 *)

ZeroUsedDays(d) ==
    /\ DOMAIN d # {}
    /\ \A k \in DOMAIN d : WellFormedDate(k) /\ ~d[k].isStr /\ d[k].n <= 0

C5_ZeroUsedDaysFails ==
    (Acted("general_info") /\ ZeroUsedDays(data.Usage.app_opens))
    => /\ pc = "general_info"
       /\ err # "none"
       /\ <<NaN>> \notin LogVals("general_info", "Av. app-open per usage-day")

-----------------------------------------------------------------------------
(* C6: swipes_total surfaces an error when likes + passes is zero or likes  *)
(* is zero: no percentage computed from the zero denominator is logged and  *)
(* the section does not complete normally.                                  *)

TotalOf(f) == SumInts(data.Usage[f], DOMAIN data.Usage[f])

SwipeInts ==
    IntsOnly(data.Usage.swipes_likes) /\ IntsOnly(data.Usage.swipes_passes)
        /\ IntsOnly(data.Usage.matches)

C6_ZeroDenominatorSurfaced ==
    (Acted("swipes_total") /\ SwipeInts)
    => /\ (TotalOf("swipes_likes") + TotalOf("swipes_passes") = 0
             => /\ pc = "swipes_total" /\ err = "ZeroDivisionError"
                /\ LogVals("swipes_total", "Passes") = {}
                /\ LogVals("swipes_total", "Likes") = {}
                /\ LogVals("swipes_total", "Matches") = {})
       /\ (TotalOf("swipes_likes") = 0
             => /\ pc = "swipes_total" /\ err = "ZeroDivisionError"
                /\ LogVals("swipes_total", "Matches") = {})

C6_Witness ==
    /\ pc = "swipes_total" /\ err = "ZeroDivisionError" /\ SwipeInts
    /\ TotalOf("swipes_likes") = 0
    /\ TotalOf("swipes_passes") > 0
    /\ TotalOf("matches") > 0
    /\ LogVals("swipes_total", "Passes") # {}

-----------------------------------------------------------------------------
(* C7: for a non-empty app_opens with a positive count, general_info logs   *)
(* Days = the days from the minimum to the maximum date key, used = the     *)
(* entries with a positive count, unused = Days - used and the mean of the  *)
(* positive counts; for {2024-01-01: 1, 2024-01-02: 0, 2024-01-03: 1} it    *)
(* logs 2, 2, 0 and 1.0.                                                    *)

C7_Example ==
    (D_2024_01_01 :> IntV(1)) @@ (D_2024_01_02 :> IntV(0)) @@ (D_2024_01_03 :> IntV(1))

UsualOpens(d) ==
    /\ DOMAIN d # {}
    /\ \A k \in DOMAIN d : WellFormedDate(k) /\ ~d[k].isStr /\ d[k].n >= 0
    /\ \E k \in DOMAIN d : d[k].n > 0

\* t tenths is n / c rounded to one decimal
NearestTenth(t, n, c) == 2 * (10 * n - t * c) <= c /\ 2 * (t * c - 10 * n) <= c

C7_GeneralInfoValues ==
    LET d == data.Usage.app_opens
        first == CHOOSE a \in DOMAIN d : \A b \in DOMAIN d : a = b \/ StrLess(a, b)
        last == CHOOSE a \in DOMAIN d : \A b \in DOMAIN d : a = b \/ StrLess(b, a)
        days == ToOrdinal(strptime(last)) - ToOrdinal(strptime(first))
        pos == {k \in DOMAIN d : d[k].n > 0}
    IN  (Acted("general_info") /\ UsualOpens(d))
        => /\ Returned("general_info")
           /\ LogVals("general_info", "Start Date") = {<<first>>}
           /\ LogVals("general_info", "End Date") = {<<last>>}
           /\ LogVals("general_info", "Days") = {<<FmtInt(days)>>}
           /\ LogVals("general_info", "used") = {<<FmtInt(Cardinality(pos))>>}
           /\ LogVals("general_info", "unused") = {<<FmtInt(days - Cardinality(pos))>>}
           /\ \E t \in 0..(10 * MaxOpens + 10) :
                 /\ NearestTenth(t, SumInts(d, pos), Cardinality(pos))
                 /\ LogVals("general_info", "Av. app-open per usage-day") = {<<FmtTenths(t)>>}
           /\ (d = C7_Example
                 => /\ LogVals("general_info", "Days") = {<< <<"2">> >>}
                    /\ LogVals("general_info", "used") = {<< <<"2">> >>}
                    /\ LogVals("general_info", "unused") = {<< <<"0">> >>}
                    /\ LogVals("general_info", "Av. app-open per usage-day")
                         = {<< <<"1", ".", "0">> >>})

C7_Witness == Returned("general_info") /\ data.Usage.app_opens = C7_Example

-----------------------------------------------------------------------------
(* C10: the unused-day count general_info reports is never negative: the    *)
(* used days are at most the reported day span.                             *)

C10_UnusedNeverNegative ==
    (Returned("general_info") /\ UsualOpens(data.Usage.app_opens))
    => \A v \in LogVals("general_info", "unused") : v[1][1] # "-"

-----------------------------------------------------------------------------
(* C8: message_loyality plots the match at source position i (0-based) of   *)
(* N matches as one series at y-index N-1-i, with one x-point per message   *)
(* in message order.  As claimed, for Messages = [B (two messages), A (one  *)
(* message)]: B at index 0 with two points, A at index 1 with one.  As      *)
(* amended: A at index 0 with one point, B at index 1 with two.             *)

MatchB == [messages |-> << [sent_date |-> T_Mon], [sent_date |-> T_Tue] >>]
MatchA == [messages |-> << [sent_date |-> T_Tue] >>]
C8_Example == <<MatchB, MatchA>>

Loyalty == images[Len(images)]

C8_ExampleAsClaimed ==
    (pc = "done" /\ data.Messages = C8_Example)
    => /\ Len(Loyalty.lines) = 2
       /\ Len(Loyalty.lines[1].pts) = 2
       /\ Len(Loyalty.lines[2].pts) = 1

C8_SeriesPerMatch ==
    pc = "done"
    => LET N == Len(data.Messages)
       IN  /\ Loyalty.name = "message_loyality"
           /\ Len(Loyalty.lines) = N
           /\ \A i \in 0..(N - 1) :
                 LET msgs == data.Messages[i + 1].messages
                     series == Loyalty.lines[(N - 1 - i) + 1]
                 IN  /\ Len(series.pts) = Len(msgs)
                     /\ \A j \in 1..Len(msgs) :
                           /\ series.pts[j].y = N - 1 - i
                           /\ series.pts[j].x = msg_strptime(msgs[j].sent_date)
                           /\ series.pts[j].x.ok
           /\ (data.Messages = C8_Example
                 => /\ Len(Loyalty.lines[1].pts) = 1
                    /\ Len(Loyalty.lines[2].pts) = 2
                    /\ Loyalty.lines[2].pts[1].x.d = 1
                    /\ Loyalty.lines[2].pts[2].x.d = 2)

C8_Witness == pc = "done" /\ data.Messages = C8_Example

-----------------------------------------------------------------------------
(* C9: in the stacked charts the base series and the stacked series are     *)
(* aligned group by group, also when the two mappings do not cover the same *)
(* months or weekdays: equal length, and the i-th stacked bar stands on the *)
(* base value of the same group key.                                        *)

C9_StackedAligned ==
    \A n \in 1..Len(images) :
        images[n].name \in StackedCharts
        => LET base == images[n].bars[1].rects
               top == images[n].bars[2].rects
           IN  /\ Len(top) = Len(base)
               /\ \A i \in 1..Len(top) :
                     /\ top[i].x = base[i].x
                     /\ top[i].bottom = base[i].height

====
